---- MODULE Spec2Model ----
(***************************************************************************)
(* Model of the cut/export/streaming core of Gebo (src-tauri/src/ffmpeg.rs *)
(* and src-tauri/src/streaming_encoder.rs).                                *)
(*                                                                         *)
(* Time values are f64 seconds in the source.  Here a time is an integer   *)
(* number of ticks of 0.5 ms, so that the two thresholds of normalize_cuts *)
(* (0.001 s and 0.005 s) are the integers EPS and MERGE_TOL.               *)
(***************************************************************************)
EXTENDS Integers, Sequences, FiniteSets, TLC

VARIABLES
  inCuts,       \* normalize_cuts: the caller's cut list (argument `cuts`)
  inDuration,   \* normalize_cuts / to_kept_segments: argument `duration`
  npc,          \* position of the normalisation pipeline: input, normalized, done
  normalized,   \* result of normalize_cuts(inCuts, inDuration)
  kept,         \* result of to_kept_segments(normalized, inDuration)
  renormalized  \* result of normalize_cuts(normalized, inDuration)

normVars == <<inCuts, inDuration, npc, normalized, kept, renormalized>>

VARIABLES
  dir,          \* the directory: file name -> inode, or NoFile
  data,         \* inode -> the file's content, a sequence of blocks
  srcDuration,  \* the duration ffprobe reports for the source file
  exp           \* export_with_cuts: one record per running call

exportVars == <<dir, data, srcDuration, exp>>

VARIABLES
  smode,        \* "single": encode_segment_streaming; "multi": generate_streaming_preview
  segs,         \* the segments asked for: segs[i] is TRUE iff end_time > start_time
  call,         \* what the called function returned to its caller
  enc,          \* per segment: its worker thread, encoder process, pipe and channel
  outer,        \* generate_streaming_preview's forwarding thread
  chan,         \* generate_streaming_preview's channel to the consumer
  attached,     \* the consumer still holds its Receiver
  detachedAt,   \* the segment in progress when the consumer dropped it, else 0
  received      \* the chunks the consumer has received, in order

streamVars == <<smode, segs, call, enc, outer, chan, attached, detachedAt, received>>

VARIABLES
  toolOut,      \* ffprobe: what the inspection tool process returned
  probed        \* ffprobe: the function's Result, "none" before the call

probeVars == <<toolOut, probed>>

VARIABLES
  clips,        \* the TimelineClip list a timeline preview is called with
  gcall,        \* the graph synthesizer that has run, "none" before
  segments,     \* the kept segments handed to build_filter_complex
  graph         \* the encoder command built: input files and filter graph

graphVars == <<clips, gcall, segments, graph>>

vars == <<normVars, exportVars, streamVars, probeVars, graphVars>>

\* a step of the normalisation pipeline, of an export, of a streaming encode
NormOnly == UNCHANGED <<exportVars, streamVars, probeVars, graphVars>>
ExportOnly == UNCHANGED <<normVars, streamVars, probeVars, graphVars>>
StreamOnly == UNCHANGED <<normVars, exportVars, probeVars, graphVars>>
ProbeOnly == UNCHANGED <<normVars, exportVars, streamVars, graphVars>>
GraphOnly == UNCHANGED <<normVars, exportVars, streamVars, probeVars>>

----------------------------------------------------------------------------
(* Bounds and program constants *)

\* longest cut list drawn as an input
MaxCuts == 3

\* most chunks one encoder process writes to its standard output
MaxChunks == 3

\* chunks the standard-output pipe holds before the encoder blocks
PipeCap == 1

\* most segments of a streaming preview
MaxSegs == 2

\* `*e > *s + 0.001` (ffmpeg.rs:142), in ticks of 0.5 ms
EPS == 2

\* `s <= *me + 0.005` (ffmpeg.rs:149), in ticks of 0.5 ms
MERGE_TOL == 10

\* the time values inputs are drawn from: one below 0, gaps of exactly
\* MERGE_TOL (6..16) and MERGE_TOL + 1 (6..17), a length below EPS (16..17)
\* and a value beyond the shorter duration
TimePoints == {-3, 3, 6, 16, 17, 21}

\* the durations inputs are drawn from; 19 clamps (17, 21) to a length of
\* exactly EPS and (16, 21) to a length just above it
Durations == {19, 30}

Cut == TimePoints \X TimePoints


----------------------------------------------------------------------------
(* ffmpeg.rs: normalize_cuts *)

Max(a, b) == IF a >= b THEN a ELSE b
Min(a, b) == IF a <= b THEN a ELSE b

\* lines 134-136: `if *e < *s { swap(s, e) }`
SwapIfInverted(c) == IF c[2] < c[1] THEN <<c[2], c[1]>> ELSE c

\* faulty variant: the end is not clamped to the duration
ClampCut_NoEndClamp(c, d) == <<IF c[1] >= 0 THEN c[1] ELSE 0, c[2]>>

\* lines 138-139: `*s = s.max(0.0); *e = e.min(duration);`
ClampCut(c, d) == <<Max(c[1], 0), Min(c[2], d)>>

\* lines 132-140: the iter_mut loop
FixCuts(cs, d) == [i \in 1..Len(cs) |-> ClampCut(SwapIfInverted(cs[i]), d)]

\* line 142: `cuts.retain(|(s, e)| *e > *s + 0.001)`
NonDegenerate(c) == c[2] > c[1] + EPS
RetainCuts(cs) == SelectSeq(cs, NonDegenerate)

\* line 145: `cuts.sort_by(|a, b| a.0.partial_cmp(&b.0))`, a stable sort
RECURSIVE InsertByStart(_, _)
InsertByStart(sorted, c) ==
  IF sorted = <<>> THEN <<c>>
  ELSE IF c[1] < Head(sorted)[1] THEN <<c>> \o sorted
  ELSE <<Head(sorted)>> \o InsertByStart(Tail(sorted), c)

RECURSIVE SortByStart(_)
SortByStart(cs) ==
  IF cs = <<>> THEN <<>>
  ELSE InsertByStart(SortByStart(SubSeq(cs, 1, Len(cs) - 1)), cs[Len(cs)])

\* faulty variant: a pair starting up to twice the tolerance after the last
\* end is merged
MergeStep_DoubleTolerance(merged, c) ==
  IF merged = <<>> THEN <<c>>
  ELSE LET last == merged[Len(merged)]
       IN  IF c[1] <= last[2] + 2 * MERGE_TOL
           THEN [merged EXCEPT ![Len(merged)] = <<last[1], Max(last[2], c[2])>>]
           ELSE Append(merged, c)

\* faulty variant: a pair starting exactly the tolerance after the last end
\* is not merged
MergeStep_StrictTolerance(merged, c) ==
  IF merged = <<>> THEN <<c>>
  ELSE LET last == merged[Len(merged)]
       IN  IF c[1] < last[2] + MERGE_TOL
           THEN [merged EXCEPT ![Len(merged)] = <<last[1], Max(last[2], c[2])>>]
           ELSE Append(merged, c)

\* faulty variant: a pair is merged only when it starts at or before the last end
MergeStep_NoTolerance(merged, c) ==
  IF merged = <<>> THEN <<c>>
  ELSE LET last == merged[Len(merged)]
       IN  IF c[1] <= last[2]
           THEN [merged EXCEPT ![Len(merged)] = <<last[1], Max(last[2], c[2])>>]
           ELSE Append(merged, c)

\* lines 148-156: one step of the merge sweep
MergeStep(merged, c) ==
  IF merged = <<>> THEN <<c>>
  ELSE LET last == merged[Len(merged)]
       IN  IF c[1] <= last[2] + MERGE_TOL
           THEN [merged EXCEPT ![Len(merged)] = <<last[1], Max(last[2], c[2])>>]
           ELSE Append(merged, c)

\* lines 146-158: the merge sweep
RECURSIVE MergeCuts(_, _)
MergeCuts(merged, cs) ==
  IF cs = <<>> THEN merged
  ELSE MergeCuts(MergeStep(merged, Head(cs)), Tail(cs))

\* faulty variant: the merge sweep runs over the pairs in input order
normalize_cuts_Unsorted(cs, d) ==
  IF d <= 0 THEN <<>>
  ELSE MergeCuts(<<>>, RetainCuts(FixCuts(cs, d)))

\* faulty variant: degenerate pairs are dropped after the merge sweep
normalize_cuts_RetainLast(cs, d) ==
  IF d <= 0 THEN <<>>
  ELSE RetainCuts(MergeCuts(<<>>, SortByStart(FixCuts(cs, d))))

\* faulty variant: degenerate pairs are dropped before clamping instead of after
normalize_cuts_RetainBeforeClamp(cs, d) ==
  IF d <= 0 THEN <<>>
  ELSE MergeCuts(<<>>, SortByStart(
         [i \in 1..Len(RetainCuts([k \in 1..Len(cs) |-> SwapIfInverted(cs[k])])) |->
            ClampCut(RetainCuts([k \in 1..Len(cs) |-> SwapIfInverted(cs[k])])[i], d)]))

normalize_cuts(cs, d) ==
  IF d <= 0 THEN <<>>
  ELSE MergeCuts(<<>>, SortByStart(RetainCuts(FixCuts(cs, d))))

----------------------------------------------------------------------------
(* ffmpeg.rs: to_kept_segments *)

\* lines 170-177: the loop; the state is <<kept, t>>
RECURSIVE KeptLoop(_, _, _)
KeptLoop(acc, t, cs) ==
  IF cs = <<>> THEN <<acc, t>>
  ELSE LET c == Head(cs)
       IN  KeptLoop(IF c[1] > t THEN Append(acc, <<t, c[1]>>) ELSE acc, c[2], Tail(cs))

\* faulty variant: the trailing segment after the last cut is not emitted
to_kept_segments_NoTrailing(cs, d) ==
  IF d <= 0 THEN <<>>
  ELSE IF cs = <<>> THEN << <<0, d>> >>
  ELSE KeptLoop(<<>>, 0, cs)[1]

to_kept_segments(cs, d) ==
  IF d <= 0 THEN <<>>
  ELSE IF cs = <<>> THEN << <<0, d>> >>
  ELSE LET r == KeptLoop(<<>>, 0, cs)
       IN  IF r[2] < d THEN Append(r[1], <<r[2], d>>) ELSE r[1]

----------------------------------------------------------------------------
(* The normalisation pipeline applied to drawn inputs *)

\* the export state while the normalisation pipeline is studied alone
ExportIdle ==
  /\ dir = <<>>
  /\ data = <<>>
  /\ srcDuration = 0
  /\ exp = <<>>

\* ffprobe has not been called: no Result yet
NotProbed == [tag |-> "none", err |-> "", duration |-> 0, has_video |-> FALSE]

\* the probe state while other operations are studied
ProbeIdle ==
  /\ toolOut = <<>>
  /\ probed = NotProbed

\* the graph synthesizers' state while other operations are studied
GraphIdle ==
  /\ clips = <<>>
  /\ gcall = "none"
  /\ segments = <<>>
  /\ graph = <<>>

\* the streaming state while other operations are studied
StreamIdle ==
  /\ smode = "none"
  /\ segs = <<>>
  /\ call = "none"
  /\ enc = <<>>
  /\ outer = [pc |-> "idle", cur |-> 0, hold |-> <<>>, sendFailed |-> FALSE,
              res |-> "none"]
  /\ chan = <<>>
  /\ attached = FALSE
  /\ detachedAt = 0
  /\ received = <<>>

InitNorm ==
  /\ ExportIdle
  /\ StreamIdle
  /\ ProbeIdle
  /\ GraphIdle
  /\ \E n \in 0..MaxCuts : inCuts \in [1..n -> Cut]
  /\ inDuration \in Durations
  /\ npc = "input"
  /\ normalized = <<>>
  /\ kept = <<>>
  /\ renormalized = <<>>

\* export_with_cuts lines 240 and 249: normalize the cuts, derive the kept
\* segments
Normalize ==
  /\ npc = "input"
  /\ normalized' = normalize_cuts(inCuts, inDuration)
  /\ kept' = to_kept_segments(normalized', inDuration)
  /\ npc' = "normalized"
  /\ UNCHANGED <<inCuts, inDuration, renormalized>>
  /\ NormOnly

\* normalize_cuts applied to its own output
Renormalize ==
  /\ npc = "normalized"
  /\ renormalized' = normalize_cuts(normalized, inDuration)
  /\ npc' = "done"
  /\ UNCHANGED <<inCuts, inDuration, normalized, kept>>
  /\ NormOnly

NextNorm == Normalize \/ Renormalize

SpecNorm == InitNorm /\ [][NextNorm]_vars

----------------------------------------------------------------------------
(* Claims about normalize_cuts and to_kept_segments (SpecNorm) *)

\* the list is sorted by start and no two of its intervals overlap
SortedDisjoint(cs) ==
  \A i, j \in 1..Len(cs) : i < j => cs[i][1] <= cs[j][1] /\ cs[i][2] <= cs[j][1]

\* the half-open tick [t, t+1) lies inside the interval c
Covers(c, t) == c[1] <= t /\ t + 1 <= c[2]

\* how many intervals of the list cover the tick [t, t+1)
CoverCount(cs, t) == Cardinality({i \in 1..Len(cs) : Covers(cs[i], t)})

\* C2: for every duration d > 0 and every cut list C, normalize_cuts is
\* idempotent: normalize_cuts(normalize_cuts(C, d), d) = normalize_cuts(C, d).
NormalizeIdempotent ==
  (npc = "done" /\ inDuration > 0) => renormalized = normalized

\* C2 witness: a three-pair input that normalisation changed into two cuts,
\* normalised a second time
NormalizeIdempotentWitness ==
  /\ npc = "done"
  /\ Len(inCuts) = 3
  /\ Len(normalized) = 2
  /\ \E i \in 1..3 : inCuts[i][2] < inCuts[i][1]

\* C3: for every d > 0 and every N = normalize_cuts(C, d), the list
\* to_kept_segments(N, d) is sorted ascending and pairwise disjoint, no kept
\* segment overlaps a cut of N, and kept segments and cuts together cover
\* [0, d] exactly: every tick of [0, d] lies in exactly one of them and none
\* of them reaches outside [0, d].
KeptPartition ==
  (npc # "input" /\ inDuration > 0) =>
    /\ SortedDisjoint(kept)
    /\ \A i \in 1..Len(kept) : kept[i][1] < kept[i][2]
    /\ \A i \in 1..Len(kept), j \in 1..Len(normalized) :
         kept[i][2] <= normalized[j][1] \/ normalized[j][2] <= kept[i][1]
    /\ \A i \in 1..Len(kept) : 0 <= kept[i][1] /\ kept[i][2] <= inDuration
    /\ \A i \in 1..Len(normalized) :
         0 <= normalized[i][1] /\ normalized[i][2] <= inDuration
    /\ \A t \in 0..(inDuration - 1) :
         CoverCount(kept, t) + CoverCount(normalized, t) = 1

\* C3 witness: two cuts with a leading, a middle and a trailing kept segment
KeptPartitionWitness ==
  /\ npc = "normalized"
  /\ Len(normalized) = 2
  /\ Len(kept) = 3

\* C4: for every d > 0 and every input list (pairs inverted, out of range,
\* overlapping or near-zero-length), every pair (s, e) of the output of
\* normalize_cuts has 0 <= s, e <= d and e > s + 1 ms, and the output is
\* sorted by start and pairwise non-overlapping.
NormalizedWellFormed ==
  (npc # "input" /\ inDuration > 0) =>
    /\ \A i \in 1..Len(normalized) :
         /\ 0 <= normalized[i][1]
         /\ normalized[i][2] <= inDuration
         /\ normalized[i][2] > normalized[i][1] + EPS
    /\ SortedDisjoint(normalized)

\* C4 witness: an input holding an inverted pair, a pair reaching outside
\* [0, d] on both sides and a pair of length below 1 ms, with a non-empty output
NormalizedWellFormedWitness ==
  /\ npc = "normalized"
  /\ normalized # <<>>
  /\ \E i \in 1..Len(inCuts) : inCuts[i][2] < inCuts[i][1]
  /\ \E i \in 1..Len(inCuts) : inCuts[i][1] < 0 /\ inCuts[i][2] > inDuration
  /\ \E i \in 1..Len(inCuts) :
       inCuts[i][1] < inCuts[i][2] /\ inCuts[i][2] <= inCuts[i][1] + EPS

----------------------------------------------------------------------------
(* ffmpeg.rs: export_with_cuts, over a file system of names and inodes *)

\* a file name is the sequence of its dot-separated parts: a.tmp.mp4 is
\* <<"a", "tmp", "mp4">>; all files live in one directory
SourceName == <<"src", "mp4">>

\* destinations a caller may name
DestNames == {<<"a">>, <<"a", "mp4">>, <<"a", "tmp", "mp4">>, <<"b", "mp4">>}

\* temp_output_path: Path::file_stem is the name without its last part (the
\* whole name when it has no dot, "out" when there is no name), and
\* Path::extension is the last part ("mp4" when the name has no dot)
temp_output_path(output) ==
  LET n    == Len(output)
      stem == IF n = 0 THEN <<"out">>
              ELSE IF n = 1 THEN output
              ELSE SubSeq(output, 1, n - 1)
      ext  == IF n > 1 THEN output[n] ELSE "mp4"
  IN  stem \o <<"tmp", ext>>

FileNames == {SourceName} \cup DestNames \cup {temp_output_path(n) : n \in DestNames}

\* the inode of a name that does not exist
NoFile == 0

\* what a reader finds at a name that does not exist
Absent == <<"absent">>

\* the source file's content
SrcData == <<"s1", "s2">>

\* the content of a destination that exists before the call
OldData == <<"old">>

\* what the encoder writes for a list of kept segments: one block per
\* trim/concat input of build_filter_complex
EncodedOutput(ks) == [i \in 1..Len(ks) |-> <<"enc", ks[i]>>]

\* the cut lists an export is called with: none, a degenerate pair, one
\* covering the whole source, a single cut, an inverted pair plus a cut, two
\* pairs that merge into one covering the whole source
ExportCuts ==
  { <<>>,
    << <<3, 3>> >>,
    << <<-3, 30>> >>,
    << <<3, 6>> >>,
    << <<6, 3>>, <<17, 21>> >>,
    << <<17, 30>>, <<16, -3>> >> }

\* the durations ffprobe may report for the source
ProbeDurations == {0, 30}

\* content of the file a name refers to, or Absent
Content(name) == IF dir[name] = NoFile THEN Absent ELSE data[dir[name]]

\* the inode given to a newly created file
FreshInode == Len(data) + 1

\* open(O_CREAT | O_TRUNC): the name keeps its inode when it has one
CreatedInode(name) == IF dir[name] = NoFile THEN FreshInode ELSE dir[name]

DirAfterCreate(name) == [dir EXCEPT ![name] = CreatedInode(name)]

DataAfterCreate(name) ==
  IF dir[name] = NoFile THEN Append(data, <<>>)
  ELSE [data EXCEPT ![dir[name]] = <<>>]

\* write(fd, block) at the writer's own file offset pos (0-based)
WriteAt(content, pos, blk) ==
  [i \in 1..Max(Len(content), pos + 1) |->
     IF i = pos + 1 THEN blk
     ELSE IF i <= Len(content) THEN content[i]
     ELSE "hole"]

\* a call of export_with_cuts(input = SourceName, output, ranges_to_cut)
NewExport(output, cuts) ==
  [ pc            |-> "start",
    output        |-> output,
    ranges_to_cut |-> cuts,
    normalized    |-> <<>>,
    kept          |-> <<>>,
    tmp           |-> <<>>,
    fd            |-> NoFile,      \* inode the copy or the encoder writes
    pos           |-> 0,           \* blocks written through fd
    status        |-> "none",      \* the encoder's exit status
    result        |-> "none",
    before        |-> Absent ]     \* content of output when the call began

Returned(o) == exp[o].pc = "done"

Return(o, res) == exp' = [exp EXCEPT ![o].pc = "done", ![o].result = res]

\* faulty variant: no fast path for an empty cut list
CheckTools_NoFastPath(o) ==
  /\ exp[o].pc = "start"
  /\ \/ Return(o, "ToolNotFound")
     \/ exp' = [exp EXCEPT ![o].pc = "probe"]
  /\ UNCHANGED <<dir, data, srcDuration>>
  /\ ExportOnly

\* lines 225-234: ffmpeg_exists() and the empty-list fast path
CheckTools(o) ==
  /\ exp[o].pc = "start"
  /\ \/ Return(o, "ToolNotFound")
     \/ exp' = [exp EXCEPT ![o].pc =
                  IF exp[o].ranges_to_cut = <<>> THEN "copy" ELSE "probe"]
  /\ UNCHANGED <<dir, data, srcDuration>>
  /\ ExportOnly

\* line 236: ffprobe(input) fails
ProbeFail(o) ==
  /\ exp[o].pc = "probe"
  /\ Return(o, "ProbeFailed")
  /\ UNCHANGED <<dir, data, srcDuration>>
  /\ ExportOnly

\* faulty variant: an empty normalized list does not fall back to the copy
ProbeAndPlan_NoCopyFallback(o) ==
  /\ exp[o].pc = "probe"
  /\ LET norm == normalize_cuts(exp[o].ranges_to_cut, srcDuration)
         ks   == to_kept_segments(norm, srcDuration)
     IN  IF ks = <<>>
         THEN exp' = [exp EXCEPT ![o].pc = "done", ![o].normalized = norm,
                                 ![o].result = "AllContentCut"]
         ELSE exp' = [exp EXCEPT ![o].pc = "spawn", ![o].normalized = norm,
                                 ![o].kept = ks,
                                 ![o].tmp = temp_output_path(exp[o].output)]
  /\ UNCHANGED <<dir, data, srcDuration>>
  /\ ExportOnly

\* faulty variant: an empty list of kept segments is not rejected
ProbeAndPlan_NoEmptyCheck(o) ==
  /\ exp[o].pc = "probe"
  /\ LET norm == normalize_cuts(exp[o].ranges_to_cut, srcDuration)
         ks   == to_kept_segments(norm, srcDuration)
     IN  IF norm = <<>>
         THEN exp' = [exp EXCEPT ![o].pc = "copy"]
         ELSE exp' = [exp EXCEPT ![o].pc = "spawn", ![o].normalized = norm,
                                 ![o].kept = ks,
                                 ![o].tmp = temp_output_path(exp[o].output)]
  /\ UNCHANGED <<dir, data, srcDuration>>
  /\ ExportOnly

\* lines 236-255: ffprobe succeeds; normalize, derive kept segments, choose
\* between the copy path, the all-cut error and the encode path
ProbeAndPlan(o) ==
  /\ exp[o].pc = "probe"
  /\ LET norm == normalize_cuts(exp[o].ranges_to_cut, srcDuration)
         ks   == to_kept_segments(norm, srcDuration)
     IN  IF norm = <<>>
         THEN exp' = [exp EXCEPT ![o].pc = "copy"]
         ELSE IF ks = <<>>
         THEN exp' = [exp EXCEPT ![o].pc = "done", ![o].normalized = norm,
                                 ![o].result = "AllContentCut"]
         ELSE exp' = [exp EXCEPT ![o].pc = "spawn", ![o].normalized = norm,
                                 ![o].kept = ks,
                                 ![o].tmp = temp_output_path(exp[o].output)]
  /\ UNCHANGED <<dir, data, srcDuration>>
  /\ ExportOnly

\* fs::copy (lines 231, 243) cannot open the source or create the destination
CopyOpenFail(o) ==
  /\ exp[o].pc = "copy"
  /\ Return(o, "IoError")
  /\ UNCHANGED <<dir, data, srcDuration>>
  /\ ExportOnly

\* fs::copy creates or truncates the destination
CopyOpen(o) ==
  /\ exp[o].pc = "copy"
  /\ dir[SourceName] # NoFile
  /\ dir' = DirAfterCreate(exp[o].output)
  /\ data' = DataAfterCreate(exp[o].output)
  /\ exp' = [exp EXCEPT ![o].pc = "copying",
                        ![o].fd = CreatedInode(exp[o].output), ![o].pos = 0]
  /\ UNCHANGED srcDuration
  /\ ExportOnly

\* fs::copy transfers the next block of the source
CopyBlock(o) ==
  /\ exp[o].pc = "copying"
  /\ exp[o].pos < Len(Content(SourceName))
  /\ data' = [data EXCEPT ![exp[o].fd] =
                WriteAt(@, exp[o].pos, Content(SourceName)[exp[o].pos + 1])]
  /\ exp' = [exp EXCEPT ![o].pos = @ + 1]
  /\ UNCHANGED <<dir, srcDuration>>
  /\ ExportOnly

\* fs::copy fails after the destination was opened (a read or write error)
CopyFail(o) ==
  /\ exp[o].pc = "copying"
  /\ exp[o].pos < Len(Content(SourceName))
  /\ Return(o, "IoError")
  /\ UNCHANGED <<dir, data, srcDuration>>
  /\ ExportOnly

\* fs::copy reached the end of the source: return Ok(())
CopyDone(o) ==
  /\ exp[o].pc = "copying"
  /\ exp[o].pos = Len(Content(SourceName))
  /\ Return(o, "Ok")
  /\ UNCHANGED <<dir, data, srcDuration>>
  /\ ExportOnly

\* lines 258-288: Command::status() cannot start ffmpeg
SpawnFail(o) ==
  /\ exp[o].pc = "spawn"
  /\ Return(o, "SpawnFailed")
  /\ UNCHANGED <<dir, data, srcDuration>>
  /\ ExportOnly

\* lines 258-287: ffmpeg starts; the caller blocks in status()
SpawnEncoder(o) ==
  /\ exp[o].pc = "spawn"
  /\ exp' = [exp EXCEPT ![o].pc = "encoding", ![o].fd = NoFile, ![o].pos = 0]
  /\ UNCHANGED <<dir, data, srcDuration>>
  /\ ExportOnly

\* ffmpeg -y <tmp>: the encoder creates or truncates its output file
EncoderOpen(o) ==
  /\ exp[o].pc = "encoding"
  /\ exp[o].fd = NoFile
  /\ dir' = DirAfterCreate(exp[o].tmp)
  /\ data' = DataAfterCreate(exp[o].tmp)
  /\ exp' = [exp EXCEPT ![o].fd = CreatedInode(exp[o].tmp)]
  /\ UNCHANGED srcDuration
  /\ ExportOnly

\* the encoder writes its next block
EncoderWrite(o) ==
  /\ exp[o].pc = "encoding"
  /\ exp[o].fd # NoFile
  /\ exp[o].pos < Len(exp[o].kept)
  /\ data' = [data EXCEPT ![exp[o].fd] =
                WriteAt(@, exp[o].pos, EncodedOutput(exp[o].kept)[exp[o].pos + 1])]
  /\ exp' = [exp EXCEPT ![o].pos = @ + 1]
  /\ UNCHANGED <<dir, srcDuration>>
  /\ ExportOnly

\* the encoder exits with status 0 after writing all of its output
EncoderExitOk(o) ==
  /\ exp[o].pc = "encoding"
  /\ exp[o].fd # NoFile
  /\ exp[o].pos = Len(exp[o].kept)
  /\ exp' = [exp EXCEPT ![o].pc = "exited", ![o].status = "success"]
  /\ UNCHANGED <<dir, data, srcDuration>>
  /\ ExportOnly

\* the encoder exits with a non-zero status, at any point of its run
EncoderExitFail(o) ==
  /\ exp[o].pc = "encoding"
  /\ exp' = [exp EXCEPT ![o].pc = "exited", ![o].status = "failure"]
  /\ UNCHANGED <<dir, data, srcDuration>>
  /\ ExportOnly

\* faulty variant: the partial temporary file is not removed
EncodeFailed_NoCleanup(o) ==
  /\ exp[o].pc = "exited"
  /\ exp[o].status = "failure"
  /\ Return(o, "EncodeFailed")
  /\ UNCHANGED <<dir, data, srcDuration>>
  /\ ExportOnly

\* lines 290-294: `let _ = fs::remove_file(&tmp); return Err(..)`
EncodeFailed(o) ==
  /\ exp[o].pc = "exited"
  /\ exp[o].status = "failure"
  /\ dir' = [dir EXCEPT ![exp[o].tmp] = NoFile]
  /\ Return(o, "EncodeFailed")
  /\ UNCHANGED <<data, srcDuration>>
  /\ ExportOnly

\* line 297: fs::rename(&tmp, output) succeeds, atomically
RenameOk(o) ==
  /\ exp[o].pc = "exited"
  /\ exp[o].status = "success"
  /\ dir[exp[o].tmp] # NoFile
  /\ dir' = [dir EXCEPT ![exp[o].output] = dir[exp[o].tmp], ![exp[o].tmp] = NoFile]
  /\ Return(o, "Ok")
  /\ UNCHANGED <<data, srcDuration>>
  /\ ExportOnly

\* line 297: fs::rename fails; `?` returns the error
RenameFail(o) ==
  /\ exp[o].pc = "exited"
  /\ exp[o].status = "success"
  /\ Return(o, "IoError")
  /\ UNCHANGED <<dir, data, srcDuration>>
  /\ ExportOnly

NextExport ==
  \/ \E o \in DOMAIN exp : CheckTools(o)
  \/ \E o \in DOMAIN exp : ProbeFail(o)
  \/ \E o \in DOMAIN exp : ProbeAndPlan(o)
  \/ \E o \in DOMAIN exp : CopyOpenFail(o)
  \/ \E o \in DOMAIN exp : CopyOpen(o)
  \/ \E o \in DOMAIN exp : CopyBlock(o)
  \/ \E o \in DOMAIN exp : CopyFail(o)
  \/ \E o \in DOMAIN exp : CopyDone(o)
  \/ \E o \in DOMAIN exp : SpawnFail(o)
  \/ \E o \in DOMAIN exp : SpawnEncoder(o)
  \/ \E o \in DOMAIN exp : EncoderOpen(o)
  \/ \E o \in DOMAIN exp : EncoderWrite(o)
  \/ \E o \in DOMAIN exp : EncoderExitOk(o)
  \/ \E o \in DOMAIN exp : EncoderExitFail(o)
  \/ \E o \in DOMAIN exp : EncodeFailed(o)
  \/ \E o \in DOMAIN exp : RenameOk(o)
  \/ \E o \in DOMAIN exp : RenameFail(o)

\* the normalisation pipeline's variables while exports are studied
NormIdle ==
  /\ inCuts = <<>>
  /\ inDuration = 0
  /\ npc = "idle"
  /\ normalized = <<>>
  /\ kept = <<>>
  /\ renormalized = <<>>

\* the file system before the calls: the source exists, each destination in
\* `existing` holds OldData, nothing else exists
InitFiles(existing) ==
  LET names == CHOOSE s \in [1..Cardinality(existing) -> existing] :
                 \A i, j \in DOMAIN s : i # j => s[i] # s[j]
  IN  /\ dir = [n \in FileNames |->
                  IF n = SourceName THEN 1
                  ELSE IF n \in existing
                  THEN 1 + (CHOOSE i \in DOMAIN names : names[i] = n)
                  ELSE NoFile]
      /\ data = [i \in 1..(1 + Cardinality(existing)) |->
                   IF i = 1 THEN SrcData ELSE OldData]

\* one export_with_cuts call
InitExport ==
  /\ NormIdle
  /\ StreamIdle
  /\ ProbeIdle
  /\ GraphIdle
  /\ srcDuration \in ProbeDurations
  /\ \E output \in DestNames, cuts \in ExportCuts, existed \in BOOLEAN :
       /\ InitFiles(IF existed THEN {output} ELSE {})
       /\ exp = << [NewExport(output, cuts) EXCEPT
                      !.before = IF existed THEN OldData ELSE Absent] >>

SpecExport == InitExport /\ [][NextExport]_vars

\* the cut lists of two concurrent exports
ConcurrentCuts == { <<>>, << <<3, 6>> >>, << <<6, 3>>, <<17, 21>> >> }

\* two export_with_cuts calls with different destinations, running concurrently
InitExport2 ==
  /\ NormIdle
  /\ StreamIdle
  /\ ProbeIdle
  /\ GraphIdle
  /\ srcDuration \in ProbeDurations
  /\ \E out1 \in DestNames, cuts1 \in ConcurrentCuts, cuts2 \in ConcurrentCuts :
     \E out2 \in DestNames \ {out1} :
     \E existing \in SUBSET {out1, out2} :
       /\ InitFiles(existing)
       /\ exp = << [NewExport(out1, cuts1) EXCEPT
                      !.before = IF out1 \in existing THEN OldData ELSE Absent],
                   [NewExport(out2, cuts2) EXCEPT
                      !.before = IF out2 \in existing THEN OldData ELSE Absent] >>

SpecExport2 == InitExport2 /\ [][NextExport]_vars

----------------------------------------------------------------------------
(* Claims about export_with_cuts (SpecExport, SpecExport2) *)

\* what an external reader finds at the call's destination
DstContent(o) == Content(exp[o].output)

\* the complete output of the call: the encoder's output on the encode
\* path, a copy of the source on the copy path
FinalOutput(o) ==
  IF exp[o].kept # <<>> THEN EncodedOutput(exp[o].kept) ELSE SrcData

\* C1: during and after any export_with_cuts, on every path (copy or
\* encode+rename) and for every outcome, the destination holds either its
\* complete pre-operation content (or is absent) or the complete final
\* output, never a partially written file.
DestinationNeverPartial ==
  \A o \in DOMAIN exp : DstContent(o) \in {exp[o].before, FinalOutput(o)}

TempGoneAfterReturn ==
  \A o \in DOMAIN exp :
    Returned(o) => dir[temp_output_path(exp[o].output)] = NoFile

\* C7: two exports to different destinations do not interfere: an export
\* that returned Ok leaves at its destination exactly its own complete
\* output, as it does when it runs alone.
ExportsDoNotInterfere ==
  \A o \in DOMAIN exp :
    (Returned(o) /\ exp[o].result = "Ok") => DstContent(o) = FinalOutput(o)

\* the call has not come near the probe or the encoder: it is before the
\* tool check, inside fs::copy, or has returned from there
OnCopyPathOnly(o) ==
  /\ exp[o].pc \in {"start", "copy", "copying", "done"}
  /\ exp[o].status = "none"
  /\ exp[o].normalized = <<>>
  /\ exp[o].kept = <<>>

\* the call has created no temporary file
NoTempFile(o) ==
  /\ exp[o].tmp = <<>>
  /\ dir[temp_output_path(exp[o].output)] = NoFile

\* C15: with the tools available and the copy succeeding,
\* export_with_cuts(src, dst, []) leaves dst byte-identical to src, without
\* invoking the probe or the encoder and without creating a temporary file.
EmptyCutsCopySource ==
  \A o \in DOMAIN exp :
    exp[o].ranges_to_cut = <<>> =>
      /\ OnCopyPathOnly(o)
      /\ NoTempFile(o)
      /\ (Returned(o) /\ exp[o].result = "Ok") =>
           (DstContent(o) = SrcData /\ Content(SourceName) = SrcData)

\* C15 witness: a call with no cuts returned Ok over a destination that
\* held other content before
EmptyCutsCopySourceWitness ==
  \E o \in DOMAIN exp :
    /\ exp[o].ranges_to_cut = <<>>
    /\ Returned(o)
    /\ exp[o].result = "Ok"
    /\ exp[o].before = OldData
    /\ exp[o].pos = Len(SrcData)

\* the normalisation of the call's cut list covers all of [0, d], d being
\* the probed duration
CutsCoverAll(o) ==
  LET norm == normalize_cuts(exp[o].ranges_to_cut, srcDuration)
  IN  \A t \in 0..(srcDuration - 1) : CoverCount(norm, t) = 1

\* C16: for a probed duration d > 0, export_with_cuts with [(0, d)], or with
\* any cut list whose normalization covers all of [0, d], fails with the
\* all-content-cut error (once the tools were found and the probe
\* succeeded), without invoking the encoder and without creating or changing
\* the destination or a temporary file.
AllCutIsRejected ==
  \A o \in DOMAIN exp :
    (srcDuration > 0 /\ CutsCoverAll(o)) =>
      /\ exp[o].pc \in {"start", "probe", "done"}
      /\ exp[o].status = "none"
      /\ NoTempFile(o)
      /\ DstContent(o) = exp[o].before
      /\ Returned(o) => exp[o].result \in {"ToolNotFound", "ProbeFailed", "AllContentCut"}

\* C16 witness: a call whose two pairs merge into one cut over the whole
\* source returned the all-content-cut error; its destination existed before
AllCutIsRejectedWitness ==
  \E o \in DOMAIN exp :
    /\ srcDuration > 0
    /\ Len(exp[o].ranges_to_cut) = 2
    /\ CutsCoverAll(o)
    /\ Returned(o)
    /\ exp[o].result = "AllContentCut"
    /\ exp[o].before = OldData

\* the call was given cuts, and normalization against the probed duration
\* leaves none of them
NoCutsLeft(o) ==
  /\ exp[o].ranges_to_cut # <<>>
  /\ normalize_cuts(exp[o].ranges_to_cut, srcDuration) = <<>>

\* C17: when the supplied cut list is non-empty but normalization yields no
\* cuts (every pair degenerate after swap and clamp, or the probed duration
\* <= 0), export_with_cuts copies the source to the destination and stops:
\* the encoder is never invoked, no error of the encode path is returned,
\* and when the copy has succeeded the result is success and dst is
\* byte-identical to src.
NoCutsLeftCopiesSource ==
  \A o \in DOMAIN exp :
    NoCutsLeft(o) =>
      /\ exp[o].pc \in {"start", "probe", "copy", "copying", "done"}
      /\ exp[o].status = "none"
      /\ exp[o].kept = <<>>
      /\ NoTempFile(o)
      /\ Returned(o) =>
           /\ exp[o].result \in {"ToolNotFound", "ProbeFailed", "IoError", "Ok"}
           /\ exp[o].pos = Len(SrcData) => exp[o].result = "Ok"
           /\ exp[o].result = "Ok" =>
                (DstContent(o) = SrcData /\ Content(SourceName) = SrcData)

\* C17 witness: a call given one degenerate pair, with a positive probed
\* duration, returned Ok over a destination that held other content before
NoCutsLeftCopiesSourceWitness ==
  \E o \in DOMAIN exp :
    /\ srcDuration > 0
    /\ NoCutsLeft(o)
    /\ Returned(o)
    /\ exp[o].result = "Ok"
    /\ exp[o].before = OldData

----------------------------------------------------------------------------
(* streaming_encoder.rs: encode_segment_streaming, generate_streaming_preview *)

\* the worker thread, encoder process, pipe and channel of one segment
\* before encode_segment_streaming is called for it
IdleEncoder ==
  [ wpc        |-> "idle",    \* worker: idle, spawn, read, send, wait, done
    wres       |-> "none",    \* the worker closure's Result
    wmsg       |-> "",        \* the text the Err of that Result carries
    hold       |-> <<>>,      \* the chunk read and not yet sent
    sendFailed |-> FALSE,     \* tx.send returned Err (line 91)
    proc       |-> "none",    \* encoder: none, running, exited (unreaped), reaped
    status     |-> "none",    \* exit status: success, failure, killed
    stderr     |-> "",        \* what the encoder wrote to its piped stderr
    produced   |-> 0,         \* chunks the encoder has written to its stdout
    pipe       |-> <<>>,      \* chunks in the stdout pipe, unread
    q          |-> <<>> ]     \* chunks in the segment's mpsc channel

IdleOuter ==
  [ pc |-> "idle",            \* idle, call, recv, forward, join, done
    cur |-> 0,                \* index of the segment in progress
    hold |-> <<>>,            \* the chunk received and not yet forwarded
    sendFailed |-> FALSE,     \* tx.send returned Err (line 151)
    res |-> "none" ]          \* the forwarding closure's Result

\* the Receiver of segment i's channel is alive: the consumer holds it for
\* a single segment; generate_streaming_preview's thread holds seg_rx while
\* it is in the loop body for segment i
SegRxAlive(i) ==
  IF smode = "single" THEN attached
  ELSE outer.cur = i /\ outer.pc \in {"recv", "forward", "join"}

\* the Sender of segment i's channel is alive: it is owned by the worker
\* closure and dropped when the closure returns
SegTxAlive(i) == enc[i].wpc \in {"spawn", "read", "send", "wait"}

\* encode_segment_streaming lines 30-37: the checks made before the worker
\* thread is spawned; the outcomes a call for segment i may have
CallOutcomes(i) == {"ToolNotFound"} \cup (IF segs[i] THEN {"started"} ELSE {"InvalidDuration"})

\* faulty variant: the worker thread is spawned before the tools are checked
CallSingle_SpawnFirst ==
  /\ smode = "single"
  /\ call = "none"
  /\ \E r \in CallOutcomes(1) :
       /\ call' = r
       /\ enc' = [enc EXCEPT ![1].wpc = "spawn"]
  /\ UNCHANGED <<smode, segs, outer, chan, attached, detachedAt, received>>
  /\ StreamOnly

\* the caller calls encode_segment_streaming (lines 24-124)
CallSingle ==
  /\ smode = "single"
  /\ call = "none"
  /\ \E r \in CallOutcomes(1) :
       /\ call' = r
       /\ enc' = IF r = "started" THEN [enc EXCEPT ![1].wpc = "spawn"] ELSE enc
  /\ UNCHANGED <<smode, segs, outer, chan, attached, detachedAt, received>>
  /\ StreamOnly

\* the caller calls generate_streaming_preview (lines 127-167)
CallMulti ==
  /\ smode = "multi"
  /\ call = "none"
  /\ IF segs = <<>>
     THEN call' = "NoSegments" /\ outer' = outer
     ELSE call' = "started" /\ outer' = [outer EXCEPT !.pc = "call", !.cur = 1]
  /\ UNCHANGED <<smode, segs, enc, chan, attached, detachedAt, received>>
  /\ StreamOnly

\* lines 142-147: encode_segment_streaming(..)? for the current segment
OuterCall ==
  /\ outer.pc = "call"
  /\ \E r \in CallOutcomes(outer.cur) :
       IF r = "started"
       THEN /\ enc' = [enc EXCEPT ![outer.cur].wpc = "spawn"]
            /\ outer' = [outer EXCEPT !.pc = "recv"]
       ELSE /\ enc' = enc
            /\ outer' = [outer EXCEPT !.pc = "done", !.res = r]
  /\ UNCHANGED <<smode, segs, call, chan, attached, detachedAt, received>>
  /\ StreamOnly

\* line 150: seg_rx.recv() returns a chunk, or Err once the channel is
\* empty and its Sender is dropped
OuterRecv ==
  /\ outer.pc = "recv"
  /\ LET i == outer.cur
     IN  IF enc[i].q # <<>>
         THEN /\ outer' = [outer EXCEPT !.pc = "forward", !.hold = Head(enc[i].q)]
              /\ enc' = [enc EXCEPT ![i].q = Tail(@)]
         ELSE /\ ~SegTxAlive(i)
              /\ outer' = [outer EXCEPT !.pc = "join"]
              /\ enc' = enc
  /\ UNCHANGED <<smode, segs, call, chan, attached, detachedAt, received>>
  /\ StreamOnly

\* lines 151-154: tx.send(chunk); on Err `return Ok(())`
OuterForward ==
  /\ outer.pc = "forward"
  /\ IF attached
     THEN /\ chan' = Append(chan, outer.hold)
          /\ outer' = [outer EXCEPT !.pc = "recv", !.hold = <<>>]
     ELSE /\ chan' = chan
          /\ outer' = [outer EXCEPT !.pc = "done", !.hold = <<>>,
                                    !.sendFailed = TRUE, !.res = "Ok"]
  /\ UNCHANGED <<smode, segs, call, enc, attached, detachedAt, received>>
  /\ StreamOnly

\* lines 158-163: seg_handle.join().unwrap()?, then the next segment or Ok(())
OuterJoin ==
  /\ outer.pc = "join"
  /\ enc[outer.cur].wpc = "done"
  /\ outer' =
       IF enc[outer.cur].wres # "Ok"
       THEN [outer EXCEPT !.pc = "done", !.res = enc[outer.cur].wres]
       ELSE IF outer.cur < Len(segs)
       THEN [outer EXCEPT !.pc = "call", !.cur = @ + 1]
       ELSE [outer EXCEPT !.pc = "done", !.res = "Ok"]
  /\ UNCHANGED <<smode, segs, call, enc, chan, attached, detachedAt, received>>
  /\ StreamOnly

\* lines 46-70: Command::spawn() fails; `?` returns Err and drops tx
WorkerSpawnFail(i) ==
  /\ enc[i].wpc = "spawn"
  /\ enc' = [enc EXCEPT ![i].wpc = "done", ![i].wres = "SpawnFailed"]
  /\ UNCHANGED <<smode, segs, call, outer, chan, attached, detachedAt, received>>
  /\ StreamOnly

\* lines 46-77: the encoder process starts with its stdout piped
WorkerSpawn(i) ==
  /\ enc[i].wpc = "spawn"
  /\ enc' = [enc EXCEPT ![i].wpc = "read", ![i].proc = "running"]
  /\ UNCHANGED <<smode, segs, call, outer, chan, attached, detachedAt, received>>
  /\ StreamOnly

\* the encoder writes its next chunk to stdout; it blocks while the pipe is full
EncoderProduce(i) ==
  /\ enc[i].proc = "running"
  /\ enc[i].produced < MaxChunks
  /\ Len(enc[i].pipe) < PipeCap
  /\ enc' = [enc EXCEPT ![i].produced = @ + 1,
                        ![i].pipe = Append(@, <<i, enc[i].produced + 1>>)]
  /\ UNCHANGED <<smode, segs, call, outer, chan, attached, detachedAt, received>>
  /\ StreamOnly

\* what ffmpeg -v error may have written to stderr by the time it exits
\* with the given status; the worker looks at stderr only when the status
\* is not success (lines 113-114), so it is left empty for a clean exit
Diagnostics(st) == IF st = "failure" THEN {"", "diag"} ELSE {""}

\* the encoder closes its stdout and exits on its own, with status 0 or not
EncoderExit(i) ==
  /\ enc[i].proc = "running"
  /\ \E st \in {"success", "failure"} : \E msg \in Diagnostics(st) :
       enc' = [enc EXCEPT ![i].proc = "exited", ![i].status = st, ![i].stderr = msg]
  /\ UNCHANGED <<smode, segs, call, outer, chan, attached, detachedAt, received>>
  /\ StreamOnly

\* line 80: reader.read(&mut buffer) returns Ok(n) with a chunk, or Ok(0)
\* once the pipe is empty and the encoder has closed it
WorkerRead(i) ==
  /\ enc[i].wpc = "read"
  /\ IF enc[i].pipe # <<>>
     THEN enc' = [enc EXCEPT ![i].wpc = "send", ![i].hold = Head(enc[i].pipe),
                             ![i].pipe = Tail(@)]
     ELSE /\ enc[i].proc # "running"
          /\ enc' = [enc EXCEPT ![i].wpc = "wait"]
  /\ UNCHANGED <<smode, segs, call, outer, chan, attached, detachedAt, received>>
  /\ StreamOnly

\* lines 103-106: reader.read returns Err; the loop breaks without a kill
WorkerReadError(i) ==
  /\ enc[i].wpc = "read"
  /\ enc' = [enc EXCEPT ![i].wpc = "wait"]
  /\ UNCHANGED <<smode, segs, call, outer, chan, attached, detachedAt, received>>
  /\ StreamOnly

\* child.kill(): SIGKILL to a running process, nothing to one that has exited
Killed(e) ==
  IF e.proc = "running" THEN [e EXCEPT !.proc = "exited", !.status = "killed"] ELSE e

\* faulty variant: a rendezvous channel, where send waits until the chunk
\* sent before has been taken
WorkerSend_Rendezvous(i) ==
  /\ enc[i].wpc = "send"
  /\ SegRxAlive(i) => enc[i].q = <<>>
  /\ enc' = IF SegRxAlive(i)
            THEN [enc EXCEPT ![i].wpc = "read", ![i].hold = <<>>,
                             ![i].q = Append(@, enc[i].hold)]
            ELSE [enc EXCEPT ![i] = [Killed(enc[i]) EXCEPT
                    !.wpc = "wait", !.hold = <<>>, !.sendFailed = TRUE]]
  /\ UNCHANGED <<smode, segs, call, outer, chan, attached, detachedAt, received>>
  /\ StreamOnly

\* lines 91-98: tx.send(chunk) on the unbounded mpsc channel returns at
\* once; it fails only when the Receiver is dropped: kill the encoder, break
WorkerSend(i) ==
  /\ enc[i].wpc = "send"
  /\ enc' = IF SegRxAlive(i)
            THEN [enc EXCEPT ![i].wpc = "read", ![i].hold = <<>>,
                             ![i].q = Append(@, enc[i].hold)]
            ELSE [enc EXCEPT ![i] = [Killed(enc[i]) EXCEPT
                    !.wpc = "wait", !.hold = <<>>, !.sendFailed = TRUE]]
  /\ UNCHANGED <<smode, segs, call, outer, chan, attached, detachedAt, received>>
  /\ StreamOnly

\* faulty variant: the exit status is not looked at
WorkerWait_IgnoreStatus(i) ==
  /\ enc[i].wpc = "wait"
  /\ enc[i].proc = "exited"
  /\ enc' = [enc EXCEPT ![i].wpc = "done", ![i].proc = "reaped", ![i].wres = "Ok"]
  /\ UNCHANGED <<smode, segs, call, outer, chan, attached, detachedAt, received>>
  /\ StreamOnly

\* lines 110-120: wait_with_output() blocks until the encoder has exited,
\* reaps it, collects its stderr and decides the closure's Result from its
\* status
WorkerWait(i) ==
  /\ enc[i].wpc = "wait"
  /\ enc[i].proc = "exited"
  /\ enc' = [enc EXCEPT ![i].wpc = "done", ![i].proc = "reaped",
                        ![i].wres = IF enc[i].status = "success" THEN "Ok" ELSE "Failed",
                        ![i].wmsg = IF enc[i].status = "success" THEN "" ELSE enc[i].stderr]
  /\ UNCHANGED <<smode, segs, call, outer, chan, attached, detachedAt, received>>
  /\ StreamOnly

\* the consumer's rx.recv() returns the next chunk
ConsumerRecv ==
  /\ call = "started"
  /\ attached
  /\ IF smode = "single"
     THEN /\ enc[1].q # <<>>
          /\ received' = Append(received, Head(enc[1].q))
          /\ enc' = [enc EXCEPT ![1].q = Tail(@)]
          /\ chan' = chan
     ELSE /\ chan # <<>>
          /\ received' = Append(received, Head(chan))
          /\ chan' = Tail(chan)
          /\ enc' = enc
  /\ UNCHANGED <<smode, segs, call, outer, attached, detachedAt>>
  /\ StreamOnly

\* the consumer drops its Receiver; chunks still queued are discarded
ConsumerDetach ==
  /\ call = "started"
  /\ attached
  /\ attached' = FALSE
  /\ detachedAt' = IF smode = "single" THEN 1 ELSE outer.cur
  /\ UNCHANGED <<smode, segs, call, enc, outer, chan, received>>
  /\ StreamOnly

NextStream ==
  \/ CallSingle
  \/ CallMulti
  \/ OuterCall
  \/ OuterRecv
  \/ OuterForward
  \/ OuterJoin
  \/ \E i \in DOMAIN enc : WorkerSpawnFail(i)
  \/ \E i \in DOMAIN enc : WorkerSpawn(i)
  \/ \E i \in DOMAIN enc : EncoderProduce(i)
  \/ \E i \in DOMAIN enc : EncoderExit(i)
  \/ \E i \in DOMAIN enc : WorkerRead(i)
  \/ \E i \in DOMAIN enc : WorkerReadError(i)
  \/ \E i \in DOMAIN enc : WorkerSend(i)
  \/ \E i \in DOMAIN enc : WorkerWait(i)
  \/ ConsumerRecv
  \/ ConsumerDetach

\* one streaming operation: a single segment, or a preview of up to MaxSegs
InitStream ==
  /\ NormIdle
  /\ ExportIdle
  /\ ProbeIdle
  /\ GraphIdle
  /\ smode \in {"single", "multi"}
  /\ \E n \in 0..MaxSegs :
       /\ smode = "single" => n = 1
       /\ segs \in [1..n -> BOOLEAN]
       /\ enc = [i \in 1..n |-> IdleEncoder]
  /\ call = "none"
  /\ outer = IdleOuter
  /\ chan = <<>>
  /\ attached = TRUE
  /\ detachedAt = 0
  /\ received = <<>>

SpecStream == InitStream /\ [][NextStream]_vars

----------------------------------------------------------------------------
(* Claims about the streaming encoder (SpecStream) *)

\* the thread whose JoinHandle the operation returned has finished
OperationWorkerDone ==
  /\ call = "started"
  /\ IF smode = "single" THEN enc[1].wpc = "done" ELSE outer.pc = "done"

\* the Result that JoinHandle yields
OperationResult == IF smode = "single" THEN enc[1].wres ELSE outer.res

\* the worker of the operation found its Receiver dropped
OperationSawDetach ==
  IF smode = "single" THEN enc[1].sendFailed ELSE outer.sendFailed

\* C8: when the consumer detaches while the encoder is running, the encoder
\* is killed and reaped, so that once the operation's worker has finished
\* no encoder process of the operation is running or left unreaped, for
\* encode_segment_streaming and for generate_streaming_preview.
NoEncoderAfterWorker ==
  (OperationWorkerDone /\ ~attached) =>
    \A i \in DOMAIN enc : enc[i].proc \in {"none", "reaped"}

\* C9: a streaming encode that ends because the consumer detached ends in
\* a normal, non-error termination: the worker's Result is not an Err, for
\* a single segment and for a multi-segment sequence.
DetachIsNotAnError ==
  (OperationWorkerDone /\ OperationSawDetach) => OperationResult = "Ok"

\* C10: the worker blocks when delivering a chunk until the consumer has
\* accepted it, so at most one chunk is ever sent and not yet accepted.
BackpressureBounded ==
  /\ Len(chan) <= 1
  /\ \A i \in DOMAIN enc : Len(enc[i].q) <= 1

\* the chunks encoders 1..n have written to their stdout, in production
\* order: segment 1's chunks, then segment 2's, ...
RECURSIVE ProducedUpTo(_)
ProducedUpTo(n) ==
  IF n = 0 THEN <<>>
  ELSE ProducedUpTo(n - 1) \o [k \in 1..enc[n].produced |-> <<n, k>>]

ProducedBytes == ProducedUpTo(Len(enc))

IsPrefix(s, t) == Len(s) <= Len(t) /\ SubSeq(t, 1, Len(s)) = s

\* C11: at every point of a streaming operation the chunks the consumer has
\* received, in receive order, are a prefix of the chunks the encoders wrote
\* to standard output in production order (segment 1's, then segment 2's,
\* ...): nothing is reordered, duplicated or dropped between two delivered
\* chunks.
DeliveredIsPrefixOfProduced == IsPrefix(received, ProducedBytes)

\* the encoder process of segment i exists: running, or exited and not reaped
EncoderProcessExists(i) == enc[i].proc \in {"running", "exited"}

\* the consumer has received a chunk of segment j
ReceivedFrom(j) == \E k \in DOMAIN received : received[k][1] = j

\* the consumer has received every chunk segment i's encoder has written
ReceivedAllOf(i) ==
  \A n \in 1..enc[i].produced : \E k \in DOMAIN received : received[k] = <<i, n>>

\* C12: in generate_streaming_preview segments are encoded strictly one
\* after another in list order: the worker of segment j is not started until
\* the worker of every earlier segment has finished, at most one encoder
\* process of the operation exists at any time, and every chunk of segment i
\* reaches the consumer before any chunk of a later segment does.
SegmentsStrictlySequential ==
  smode = "multi" =>
    /\ \A i, j \in DOMAIN enc :
         (i < j /\ enc[j].wpc # "idle") => enc[i].wpc = "done"
    /\ Cardinality({i \in DOMAIN enc : EncoderProcessExists(i)}) <= 1
    /\ \A a, b \in DOMAIN received : a < b => received[a][1] <= received[b][1]
    /\ \A i, j \in DOMAIN enc : (i < j /\ ReceivedFrom(j)) => ReceivedAllOf(i)

\* segment i of the preview has failed: its worker's Result is an Err, or
\* the call for it returned one (lines 142-147)
SegmentFailed(i) ==
  \/ enc[i].wres \in {"SpawnFailed", "Failed"}
  \/ (outer.cur = i /\ outer.pc = "done" /\ outer.res \notin {"none", "Ok"})

\* no encoder process was started for a segment after i and the consumer
\* has received no chunk of one
NothingAfter(i) ==
  \A j \in DOMAIN enc : j > i => (enc[j].proc = "none" /\ ~ReceivedFrom(j))

\* C13: in generate_streaming_preview, if segment i fails (invalid range,
\* tool missing, spawn failure, non-zero encoder exit) or the consumer
\* detaches during segment i, then no encoder process is ever started for
\* any segment j > i and no chunk of such a segment is delivered.
AbortStopsSequence ==
  smode = "multi" =>
    \A i \in DOMAIN enc : (SegmentFailed(i) \/ detachedAt = i) => NothingAfter(i)

\* the state of the spec's machine the encode of segment i is in: 0 Idle,
\* 1 Spawning, 2 Streaming, 3 terminal
Phase(e) ==
  CASE e.wpc = "idle" -> 0
    [] e.wpc = "spawn" -> 1
    [] e.wpc \in {"read", "send", "wait"} -> 2
    [] e.wpc = "done" -> 3

\* a step moves the encode of segment i along Idle -> Spawning -> Streaming
\* -> terminal (a spawn that fails ends in Failed at once), and a terminal
\* state is never left nor its Result changed
EncodeTransition(i) ==
  LET a == Phase(enc[i])
      b == Phase(enc'[i])
  IN  /\ b \in {a, a + 1} \/ (a = 1 /\ b = 3)
      /\ a = 3 => (enc'[i].wres = enc[i].wres /\ enc'[i].wmsg = enc[i].wmsg)

\* the Result of the encode of segment i: none before the terminal state,
\* exactly one of Ok (Completed) and Err (Failed) in it; Ok when the worker
\* never found its Receiver dropped and the encoder exited with status 0;
\* Err carrying the encoder's stderr when the encoder exited non-zero
EncodeOutcome(e) ==
  /\ e.wpc # "done" => e.wres = "none"
  /\ e.wpc = "done" =>
       /\ e.wres \in {"Ok", "Failed", "SpawnFailed"}
       /\ (~e.sendFailed /\ e.status = "success") => e.wres = "Ok"
       /\ e.status = "failure" => (e.wres = "Failed" /\ e.wmsg = e.stderr)

\* C14: a single streaming encode follows Idle -> Spawning -> Streaming ->
\* exactly one of {Completed, Failed, Cancelled}, terminal states being
\* absorbing; with the consumer attached and the encoder at end-of-output
\* with exit code zero the worker result is Completed (Ok); when the encoder
\* exits non-zero the result is Failed carrying the captured stderr.
EncodeStateMachine ==
  [][\A i \in DOMAIN enc : EncodeTransition(i) /\ EncodeOutcome(enc'[i])]_vars

\* C14 witness: one encode ended Completed after delivering chunks, another
\* ended Failed on a non-zero exit with diagnostics on stderr
EncodeStateMachineWitness ==
  /\ Len(enc) = 2
  /\ attached
  /\ enc[1].wpc = "done" /\ enc[1].status = "success" /\ enc[1].wres = "Ok"
  /\ enc[1].produced >= 1 /\ ReceivedAllOf(1)
  /\ enc[2].wpc = "done" /\ enc[2].status = "failure" /\ enc[2].wres = "Failed"
  /\ enc[2].wmsg = "diag"

\* C29: the receiver of a segment's channel observes end-of-stream only
\* after the encoder has exited and been waited for, and when the worker's
\* Result is Ok and no send failed, every chunk the encoder wrote to its
\* stdout was placed on the channel before the disconnect.
EndOfStreamAfterAllOutput ==
  \A i \in DOMAIN enc :
    enc[i].wpc = "done" =>
      /\ enc[i].proc \in {"none", "reaped"}
      /\ (enc[i].wres = "Ok" /\ ~enc[i].sendFailed) =>
           (enc[i].pipe = <<>> /\ enc[i].hold = <<>>)

----------------------------------------------------------------------------
(* Streaming under fair scheduling: every thread that can take a step
   eventually takes one, and every encoder process eventually exits *)

\* the next step of segment i's worker thread
WorkerStep(i) ==
  /\ i \in DOMAIN enc
  /\ \/ WorkerSpawnFail(i)
     \/ WorkerSpawn(i)
     \/ WorkerRead(i)
     \/ WorkerReadError(i)
     \/ WorkerSend(i)
     \/ WorkerWait(i)

\* the next step of generate_streaming_preview's thread
OuterStep == OuterCall \/ OuterRecv \/ OuterForward \/ OuterJoin

\* the encoder of segment i closes its output and exits
EncoderEnds(i) == i \in DOMAIN enc /\ EncoderExit(i)

\* the operating system schedules every runnable thread; the encoders end
\* (the premise of the termination claim); nothing is assumed of the consumer
FairStream ==
  /\ WF_vars(OuterStep)
  /\ \A i \in 1..MaxSegs : WF_vars(WorkerStep(i)) /\ WF_vars(EncoderEnds(i))

SpecStreamFair == InitStream /\ [][NextStream]_vars /\ FairStream

\* the operation's worker has returned a Result, which drops the Sender of
\* the consumer's channel
OperationTerminated ==
  /\ OperationWorkerDone
  /\ OperationResult # "none"

\* C30: if every encoder process eventually closes its output and exits,
\* every streaming operation, of one segment or several, eventually
\* terminates (its worker reaches a terminal result and the channel is
\* closed), even when the consumer never receives a chunk and never
\* detaches.
StreamingTerminates == (call = "started") ~> OperationTerminated

\* a preview of two segments has ended with every chunk queued, the consumer
\* attached and nothing received
StreamingTerminatesWitness ==
  /\ smode = "multi"
  /\ Len(segs) = 2
  /\ OperationTerminated
  /\ OperationResult = "Ok"
  /\ attached
  /\ received = <<>>
  /\ Len(chan) = 2 * MaxChunks

----------------------------------------------------------------------------
(* One operation of either kind: an export or a streaming encode *)

InitOperation == InitExport \/ InitStream

NextOperation == NextExport \/ NextStream

SpecOperation == InitOperation /\ [][NextOperation]_vars

\* nothing has been done for the call beyond the tool check: no probe, no
\* copy, no encoder, and every file is as it was before the call
OnlyToolsChecked(o) ==
  /\ exp[o].pc = "done"
  /\ exp[o].status = "none"
  /\ exp[o].fd = NoFile
  /\ exp[o].pos = 0
  /\ exp[o].tmp = <<>>
  /\ exp[o].normalized = <<>>
  /\ DstContent(o) = exp[o].before
  /\ Content(SourceName) = SrcData
  /\ \A n \in FileNames \ {SourceName, exp[o].output} : dir[n] = NoFile

\* C18: if the external tools cannot be launched, export_with_cuts (for any
\* cut list, the empty one included) and encode_segment_streaming fail with
\* the tool-not-found error before any other step: no file is copied,
\* created or modified, no probe or encoder is run, no worker thread is
\* spawned.
ToolNotFoundComesFirst ==
  /\ \A o \in DOMAIN exp : exp[o].result = "ToolNotFound" => OnlyToolsChecked(o)
  /\ (smode = "single" /\ call = "ToolNotFound") => enc[1] = IdleEncoder
  /\ (smode = "multi" /\ outer.res = "ToolNotFound") =>
       (outer.pc = "done" /\ enc[outer.cur] = IdleEncoder)

\* C18 witness: export_with_cuts with an empty cut list returned the
\* tool-not-found error and the destination that existed before is as it was
ToolNotFoundComesFirstWitness ==
  \E o \in DOMAIN exp :
    /\ exp[o].ranges_to_cut = <<>>
    /\ exp[o].result = "ToolNotFound"
    /\ exp[o].before = OldData
    /\ DstContent(o) = OldData

----------------------------------------------------------------------------
(* normalize_cuts on the specification's worked examples (SpecExample) *)

\* milliseconds to ticks of 0.5 ms
Ticks(ms) == 2 * ms

\* the pairs of the two worked examples, (1, 5) (5.003, 8) and (5, 3)
\* (2, 2.0005) (10, 12), and around them: a gap of exactly 5 ms and one of
\* 5.5 ms after (1, 5), a pair of 0.5 ms inside that gap, a pair of exactly
\* 1 ms, a pair that clamping to 20 s shortens to 0.5 ms, a pair starting
\* 0.5 ms after the beginning, one ending 0.5 ms before the end, and one
\* starting where (1, 5) starts
ExamplePairs ==
  { <<Ticks(1000), Ticks(5000)>>, <<Ticks(5003), Ticks(8000)>>,
    <<Ticks(5005), Ticks(8000)>>, <<Ticks(5005) + 1, Ticks(8000)>>,
    <<Ticks(5004), Ticks(5004) + 1>>,
    <<Ticks(5000), Ticks(3000)>>, <<Ticks(2000), Ticks(2000) + 1>>,
    <<Ticks(10000), Ticks(12000)>>,
    <<Ticks(2000), Ticks(2001)>>,
    <<Ticks(20000) - 1, Ticks(25000)>>,
    <<1, Ticks(1000)>>, <<Ticks(12000), Ticks(20000) - 1>>,
    <<Ticks(1000), Ticks(3000)>> }

ExampleDurations == {Ticks(20000)}

InitExample ==
  /\ ExportIdle
  /\ StreamIdle
  /\ ProbeIdle
  /\ GraphIdle
  /\ \E n \in 0..MaxCuts : inCuts \in [1..n -> ExamplePairs]
  /\ inDuration \in ExampleDurations
  /\ npc = "input"
  /\ normalized = <<>>
  /\ kept = <<>>
  /\ renormalized = <<>>

SpecExample == InitExample /\ [][NextNorm]_vars

\* the input pairs as the merge sweep meets them, before sorting: swapped,
\* clamped, the degenerate ones dropped (lines 132-142)
CleanPairs == RetainCuts(FixCuts(inCuts, inDuration))

\* the pair p lies inside the merged cut o
Inside(p, o) == o[1] <= p[1] /\ p[2] <= o[2]

\* the merge rule, stated on the result: two consecutive cuts of the output
\* are more than 5 ms apart; every pair lies inside one cut; a cut starts at
\* the start of one of its pairs and ends at the latest end of them; and a
\* pair that does not open its cut starts at most 5 ms after the end of
\* another pair of the cut that starts no later than it
MergedAsSpecified(cl, out) ==
  /\ \A i \in 1..(Len(out) - 1) : out[i + 1][1] > out[i][2] + MERGE_TOL
  /\ \A k \in DOMAIN cl : \E i \in DOMAIN out : Inside(cl[k], out[i])
  /\ \A i \in DOMAIN out :
       /\ \E k \in DOMAIN cl : Inside(cl[k], out[i]) /\ cl[k][1] = out[i][1]
       /\ \E k \in DOMAIN cl : Inside(cl[k], out[i]) /\ cl[k][2] = out[i][2]
  /\ \A i \in DOMAIN out : \A k \in DOMAIN cl :
       (Inside(cl[k], out[i]) /\ cl[k][1] > out[i][1]) =>
         \E q \in DOMAIN cl \ {k} :
           /\ Inside(cl[q], out[i])
           /\ cl[q][1] <= cl[k][1]
           /\ cl[k][1] <= cl[q][2] + MERGE_TOL

\* the worked example [(1, 5), (5.003, 8)]
AdjacentExample == << <<Ticks(1000), Ticks(5000)>>, <<Ticks(5003), Ticks(8000)>> >>

\* C19: normalize_cuts merges a pair into the running last-merged pair
\* exactly when its start is at most 5 ms after (or before) the last merged
\* end, and the merged end is the later of the two ends; in particular
\* normalize_cuts([(1, 5), (5.003, 8)], 20) = [(1, 8)].
MergeWithinTolerance ==
  npc # "input" =>
    /\ MergedAsSpecified(CleanPairs, normalized)
    /\ inCuts = AdjacentExample => normalized = << <<Ticks(1000), Ticks(8000)>> >>

\* C19 witness: the worked example has been normalized
MergeWithinToleranceWitness ==
  /\ npc = "normalized"
  /\ inCuts = AdjacentExample
  /\ inDuration = Ticks(20000)

\* a pair with its endpoints in order
InOrder(c) == <<Min(c[1], c[2]), Max(c[1], c[2])>>

\* the length of an ordered pair once clamped to [0, d]
ClampedLength(c, d) == Min(c[2], d) - Max(c[1], 0)

\* the list with every inverted pair put in order and every pair whose
\* clamped length is at most 1 ms taken out
RECURSIVE OrderedAndPruned(_, _)
OrderedAndPruned(cs, d) ==
  IF cs = <<>> THEN <<>>
  ELSE LET c == InOrder(Head(cs))
       IN  (IF ClampedLength(c, d) > EPS THEN <<c>> ELSE <<>>)
             \o OrderedAndPruned(Tail(cs), d)

\* the worked example [(5, 3), (2, 2.0005), (10, 12)]
InvertedDegenerateExample ==
  << <<Ticks(5000), Ticks(3000)>>, <<Ticks(2000), Ticks(2000) + 1>>,
     <<Ticks(10000), Ticks(12000)>> >>

\* C20: normalize_cuts([(5, 3), (2, 2.0005), (10, 12)], 20) = [(3, 5),
\* (10, 12)]: an inverted pair is corrected by swapping its endpoints, and a
\* pair whose length after clamping is at most 1 ms is dropped before sorting
\* and merging, so the result is that of the list with the inverted pairs
\* put in order and those pairs taken out.
SwapThenDropDegenerate ==
  npc # "input" =>
    /\ normalized = normalize_cuts(OrderedAndPruned(inCuts, inDuration), inDuration)
    /\ inCuts = InvertedDegenerateExample =>
         normalized = << <<Ticks(3000), Ticks(5000)>>, <<Ticks(10000), Ticks(12000)>> >>

\* C20 witness: the worked example has been normalized
SwapThenDropDegenerateWitness ==
  /\ npc = "normalized"
  /\ inCuts = InvertedDegenerateExample
  /\ inDuration = Ticks(20000)

\* the point x / 2 lies in one of the closed intervals of cs
CoveredAt(cs, x) == \E k \in DOMAIN cs : 2 * cs[k][1] <= x /\ x <= 2 * cs[k][2]

\* the point x / 2 lies between the end of one pair of cs and the start of
\* another that is at most 5 ms later
InSmallGap(cs, x) ==
  \E p, q \in DOMAIN cs :
    /\ 2 * cs[p][2] < x
    /\ x < 2 * cs[q][1]
    /\ cs[q][1] - cs[p][2] <= MERGE_TOL

\* every endpoint of the lists, of [0, d], and a point strictly between any
\* two of them, as twice their value: coverage by either list can only
\* change at an endpoint, so these points stand for every point of [0, d]
SamplePoints(d, a, b) ==
  LET ends == {0, d} \cup {a[k][1] : k \in DOMAIN a} \cup {a[k][2] : k \in DOMAIN a}
                     \cup {b[k][1] : k \in DOMAIN b} \cup {b[k][2] : k \in DOMAIN b}
  IN  {e1 + e2 : e1, e2 \in ends}

\* C26: normalization never loses requested removal and never invents it
\* beyond the merge tolerance: every point of [0, d] covered by a surviving
\* input cut is covered by the output, and every point covered by the output
\* but by no surviving input cut lies in a gap of at most 5 ms between two
\* surviving input cuts.
RemovalNeitherLostNorInvented ==
  npc # "input" =>
    \A x \in SamplePoints(inDuration, CleanPairs, normalized) :
      /\ CoveredAt(CleanPairs, x) => CoveredAt(normalized, x)
      /\ (CoveredAt(normalized, x) /\ ~CoveredAt(CleanPairs, x)) =>
           InSmallGap(CleanPairs, x)

\* (1, 5) and (5.005, 8) are merged over their gap of exactly 5 ms while
\* (10, 12) stays apart
RemovalNeitherLostNorInventedWitness ==
  /\ npc = "normalized"
  /\ inCuts = << <<Ticks(10000), Ticks(12000)>>, <<Ticks(5005), Ticks(8000)>>,
                 <<Ticks(1000), Ticks(5000)>> >>
  /\ CoveredAt(normalized, 2 * Ticks(5002))
  /\ ~CoveredAt(CleanPairs, 2 * Ticks(5002))

\* C27: consecutive cuts of the output are separated by a gap strictly
\* greater than 5 ms, so every kept segment between two cuts is longer than
\* 5 ms; the leading and the trailing kept segment may be arbitrarily short
\* but are positive.
KeptSegmentsNotSlivers ==
  npc # "input" =>
    /\ \A i \in 1..(Len(normalized) - 1) :
         normalized[i + 1][1] - normalized[i][2] > MERGE_TOL
    /\ \A k \in DOMAIN kept :
         /\ kept[k][2] > kept[k][1]
         /\ (kept[k][1] > 0 /\ kept[k][2] < inDuration) =>
              kept[k][2] - kept[k][1] > MERGE_TOL

\* a leading and a trailing kept segment of 0.5 ms around one between cuts
KeptSegmentsNotSliversWitness ==
  /\ npc = "normalized"
  /\ Len(kept) = 3
  /\ kept[1] = <<0, 1>>
  /\ kept[3] = <<inDuration - 1, inDuration>>
  /\ kept[2][2] - kept[2][1] > MERGE_TOL

\* the list with the elements at positions i and i + 1 exchanged
SwapAdjacent(cs, i) == [cs EXCEPT ![i] = cs[i + 1], ![i + 1] = cs[i]]

\* the list with the endpoints of the pair at position i exchanged
SwapEndpoints(cs, i) == [cs EXCEPT ![i] = <<cs[i][2], cs[i][1]>>]

\* C28: the result of normalize_cuts is unchanged by any permutation of the
\* input list and by swapping the endpoints of any input pair (exchanges of
\* neighbours generate every permutation, and every list is checked).
OrderAndOrientationIrrelevant ==
  npc # "input" =>
    /\ \A i \in 1..(Len(inCuts) - 1) :
         normalize_cuts(SwapAdjacent(inCuts, i), inDuration) = normalized
    /\ \A i \in DOMAIN inCuts :
         normalize_cuts(SwapEndpoints(inCuts, i), inDuration) = normalized

\* a list given latest first with an inverted pair and two pairs of one start
OrderAndOrientationIrrelevantWitness ==
  /\ npc = "normalized"
  /\ inCuts = << <<Ticks(10000), Ticks(12000)>>, <<Ticks(5000), Ticks(3000)>>,
                 <<Ticks(1000), Ticks(3000)>> >>
  /\ normalized = << <<Ticks(1000), Ticks(5000)>>, <<Ticks(10000), Ticks(12000)>> >>


----------------------------------------------------------------------------
(* ffmpeg.rs: ffprobe, applied to what the inspection tool may return *)

\* format.duration in the tool's JSON: absent, a string that is no number
\* (ffprobe prints "N/A"), or a decimal string with the value val
DurationFields ==
  { [kind |-> "absent", val |-> 0],
    [kind |-> "text", val |-> 0],
    [kind |-> "decimal", val |-> 0],
    [kind |-> "decimal", val |-> 30] }

\* the codec_type of each entry of streams[], in order
StreamLists ==
  {<<>>} \cup {<<a>> : a \in {"video", "audio", "data"}}
         \cup {<<a, b>> : a, b \in {"video", "audio", "data"}}

\* what Command::output() gives: the process could not be spawned, or it
\* exited with a status and wrote JSON or something else to stdout
ToolOutputs ==
  [ spawned : BOOLEAN, exit : {0, 1}, json : {"valid", "invalid"},
    duration : DurationFields, streams : StreamLists ]

\* lines 53-57: `.as_str().unwrap_or("0").parse::<f64>().unwrap_or(0.0)`
ParsedDuration(field) == IF field.kind = "decimal" THEN field.val ELSE 0

\* lines 67-70: `streams.iter().find(|s| s["codec_type"] == kind)`
HasStream(streams, kind) == \E i \in DOMAIN streams : streams[i] = kind

\* an Err(..) of ffprobe, in the shape of its Ok(Probe {..})
ProbeErr(e) == [tag |-> "Err", err |-> e, duration |-> 0, has_video |-> FALSE]

\* lines 28-117: the Result of ffprobe, an error or a Probe record
ffprobe(out) ==
  IF ~out.spawned THEN ProbeErr("SpawnFailed")
  ELSE IF out.exit # 0 THEN ProbeErr("ProbeFailed")
  ELSE IF out.json = "invalid" THEN ProbeErr("InvalidJson")
  ELSE IF ~HasStream(out.streams, "audio") THEN ProbeErr("NoAudioStream")
  ELSE [ tag |-> "Ok", err |-> "",
         duration |-> ParsedDuration(out.duration),
         has_video |-> HasStream(out.streams, "video") ]

InitProbe ==
  /\ NormIdle
  /\ ExportIdle
  /\ StreamIdle
  /\ GraphIdle
  /\ toolOut \in ToolOutputs
  /\ probed = NotProbed

\* a call of ffprobe(input)
CallProbe ==
  /\ probed = NotProbed
  /\ probed' = ffprobe(toolOut)
  /\ UNCHANGED toolOut
  /\ ProbeOnly

NextProbe == CallProbe

SpecProbe == InitProbe /\ [][NextProbe]_vars

\* the tool's output can be parsed into a duration
DurationParses(out) == out.json = "valid" /\ out.duration.kind = "decimal"

\* C21: ffprobe returns a failure (never a Probe record) whenever the
\* inspection tool exits non-zero, or its output cannot be parsed into a
\* duration, or its output contains no audio stream.
ProbeRejectsUnusableOutput ==
  (probed # NotProbed /\ toolOut.spawned) =>
    ((toolOut.exit # 0 \/ ~DurationParses(toolOut)
        \/ ~HasStream(toolOut.streams, "audio"))
       => probed.tag = "Err")

----------------------------------------------------------------------------
(* ffmpeg.rs: the encoder commands built by export_with_cuts (through
   build_filter_complex), generate_timeline_preview and
   generate_adaptive_timeline_preview.  A filter graph is kept as its list of
   trim operations and its concat operation rather than as text. *)

MaxClips == 3

\* the label "[v3]" is Label("v", 3)
Label(kind, idx) == [kind |-> kind, idx |-> idx]

\* "[src:v]trim=start=s:end=e,...[v idx]" or the atrim on "[src:a]"
Trim(src, kind, s, e, idx) ==
  [src |-> src, kind |-> kind, start |-> s, end |-> e, label |-> Label(kind, idx)]

\* trim operations in the order the loop writes them: video then audio of
\* element 1, video then audio of element 2, ...; srcs[i] is the input index
\* and ranges[i] the (start, end) of element i
TrimPairs(srcs, ranges) ==
  [ j \in 1..(2 * Len(ranges)) |->
      LET i == (j + 1) \div 2
      IN  Trim(srcs[i], IF j % 2 = 1 THEN "v" ELSE "a",
               ranges[i][1], ranges[i][2], i - 1) ]

\* v_labels.join("") followed by a_labels.join("")
VideoThenAudioLabels(n) ==
  [ j \in 1..(2 * n) |->
      IF j <= n THEN Label("v", j - 1) ELSE Label("a", j - n - 1) ]

\* stream_labels.join(""): "[v0][a0][v1][a1]..."
PairedLabels(n) ==
  [ j \in 1..(2 * n) |->
      Label(IF j % 2 = 1 THEN "v" ELSE "a", (j + 1) \div 2 - 1) ]

\* "<inputs>concat=n=<n>:v=1:a=1[outv][outa]"
Concat(inputs, n) ==
  [inputs |-> inputs, n |-> n, v |-> 1, a |-> 1, outputs |-> <<"outv", "outa">>]

\* no filter graph on the command line
NoFilter == [trims |-> <<>>, concat |-> Concat(<<>>, 0)]

\* faulty variant: the first kept segment is trimmed twice, the last never
build_filter_complex_ShiftedTrims(ks) ==
  [ trims  |-> TrimPairs([i \in DOMAIN ks |-> 0],
                         [i \in DOMAIN ks |-> ks[IF i = 1 THEN 1 ELSE i - 1]]),
    concat |-> Concat(VideoThenAudioLabels(Len(ks)), Len(ks)) ]

\* lines 185-207
build_filter_complex(ks) ==
  [ trims  |-> TrimPairs([i \in DOMAIN ks |-> 0], ks),
    concat |-> Concat(VideoThenAudioLabels(Len(ks)), Len(ks)) ]

\* sort_by(|a, b| a.offset.partial_cmp(&b.offset)): a stable sort.  c stood
\* before every element of s in the input, so it stays before its equals
RECURSIVE InsertByOffset(_, _)
InsertByOffset(c, s) ==
  IF s = <<>> THEN <<c>>
  ELSE IF c.offset <= Head(s).offset THEN <<c>> \o s
  ELSE <<Head(s)>> \o InsertByOffset(c, Tail(s))

RECURSIVE SortByOffset(_)
SortByOffset(s) ==
  IF s = <<>> THEN <<>>
  ELSE InsertByOffset(s[1], SortByOffset(Tail(s)))

\* faulty variant: the clips are used in the order they were given
sorted_clips_InputOrder(cs) == cs

\* lines 490-491 and 597-598
sorted_clips(cs) == SortByOffset(cs)

\* lines 493-518 and 635-660: the graph over the sorted clips
timeline_filter(sorted) ==
  [ trims  |-> TrimPairs([i \in DOMAIN sorted |-> i - 1],
                         [i \in DOMAIN sorted |->
                            <<sorted[i].start_time, sorted[i].end_time>>]),
    concat |-> Concat(PairedLabels(Len(sorted)), Len(sorted)) ]

\* the "-i" arguments, lines 525-527 and 667-669
ClipInputs(sorted) == [i \in 1..Len(sorted) |-> sorted[i].media_path]

\* the encoder command: input files, "-ss"/"-t" before the input if any,
\* and the filter graph
Command(inputs, seek, filter) ==
  [inputs |-> inputs, seek |-> seek, filter |-> filter]

Media == {"a.mp4", "b.mp4"}
ClipRanges == {<<0, 4>>, <<2, 6>>}
Offsets == {0, 5, 9}

TimelineClip ==
  { [media_path |-> m, start_time |-> r[1], end_time |-> r[2], offset |-> o] :
      m \in Media, r \in ClipRanges, o \in Offsets }

\* cut requests of an export: plain, inverted, overlapping the ends,
\* degenerate, running to the end of the shorter source
GraphCuts == {<<3, 6>>, <<6, 3>>, <<-3, 30>>, <<17, 21>>, <<6, 19>>, <<3, 3>>}

InitGraph ==
  /\ ExportIdle
  /\ StreamIdle
  /\ ProbeIdle
  /\ \/ /\ \E n \in 0..MaxCuts : inCuts \in [1..n -> GraphCuts]
        /\ inDuration \in Durations \cup {0}
        /\ clips = <<>>
     \/ /\ inCuts = <<>>
        /\ inDuration = 0
        /\ \E n \in 1..MaxClips : clips \in [1..n -> TimelineClip]
  /\ npc = "idle"
  /\ normalized = <<>>
  /\ kept = <<>>
  /\ renormalized = <<>>
  /\ gcall = "none"
  /\ segments = <<>>
  /\ graph = Command(<<>>, <<>>, NoFilter)

\* faulty variant: an empty list of kept segments reaches the synthesizer
PlanExport_NoKeptCheck ==
  /\ gcall = "none"
  /\ clips = <<>>
  /\ normalized' = normalize_cuts(inCuts, inDuration)
  /\ kept' = to_kept_segments(normalized', inDuration)
  /\ IF inCuts = <<>> \/ normalized' = <<>>
     THEN gcall' = "copied" /\ UNCHANGED <<segments, graph>>
     ELSE /\ gcall' = "export"
          /\ segments' = kept'
          /\ graph' = Command(<<"input">>, <<>>, build_filter_complex(kept'))
  /\ UNCHANGED <<inCuts, inDuration, npc, renormalized, clips>>
  /\ UNCHANGED <<exportVars, streamVars, probeVars>>

\* export_with_cuts lines 229-263 with a probe that reports inDuration: the
\* copy paths, the all-cut error, or the encoder command over the kept
\* segments
PlanExport ==
  /\ gcall = "none"
  /\ clips = <<>>
  /\ normalized' = normalize_cuts(inCuts, inDuration)
  /\ kept' = to_kept_segments(normalized', inDuration)
  /\ IF inCuts = <<>> \/ normalized' = <<>>
     THEN gcall' = "copied" /\ UNCHANGED <<segments, graph>>
     ELSE IF kept' = <<>>
     THEN gcall' = "rejected" /\ UNCHANGED <<segments, graph>>
     ELSE /\ gcall' = "export"
          /\ segments' = kept'
          /\ graph' = Command(<<"input">>, <<>>, build_filter_complex(kept'))
  /\ UNCHANGED <<inCuts, inDuration, npc, renormalized, clips>>
  /\ UNCHANGED <<exportVars, streamVars, probeVars>>

\* generate_timeline_preview lines 477-527
TimelinePreview ==
  /\ gcall = "none"
  /\ clips # <<>>
  /\ LET sorted == sorted_clips(clips)
     IN  graph' = Command(ClipInputs(sorted), <<>>, timeline_filter(sorted))
  /\ gcall' = "timeline"
  /\ UNCHANGED <<clips, segments>>
  /\ GraphOnly

\* generate_adaptive_timeline_preview lines 580-669: one clip is cut with
\* "-ss start -t duration" and no graph, several get the graph
AdaptivePreview ==
  /\ gcall = "none"
  /\ clips # <<>>
  /\ LET sorted == sorted_clips(clips)
     IN  IF Len(sorted) = 1
         THEN /\ graph' = Command(ClipInputs(sorted),
                            <<sorted[1].start_time,
                              sorted[1].end_time - sorted[1].start_time>>,
                            NoFilter)
              /\ gcall' = "adaptive_single"
         ELSE /\ graph' = Command(ClipInputs(sorted), <<>>,
                                  timeline_filter(sorted))
              /\ gcall' = "adaptive"
  /\ UNCHANGED <<clips, segments>>
  /\ GraphOnly

NextGraph == PlanExport \/ TimelinePreview \/ AdaptivePreview

SpecGraph == InitGraph /\ [][NextGraph]_vars

\* the number of elements the graph was built over
GraphElements == IF gcall = "export" THEN Len(segments) ELSE Len(clips)

HasGraph == gcall \in {"export", "timeline", "adaptive"}

\* C22: the single concat of a graph over N elements has n = N, produces
\* exactly outv and outa, and takes its inputs as the pairs (v_i, a_i) in
\* index order: [v0][a0][v1][a1]...
ConcatTakesPairsInOrder ==
  HasGraph =>
    /\ graph.filter.concat.n = GraphElements
    /\ graph.filter.concat.outputs = <<"outv", "outa">>
    /\ graph.filter.concat.inputs = PairedLabels(GraphElements)

\* C23: build_filter_complex emits exactly N video and N audio trims for N
\* kept segments, and the pair v_i / a_i uses exactly the start and end of
\* the i-th segment: none reordered, merged, dropped or duplicated.
TrimsFollowSegments ==
  gcall = "export" =>
    LET trims == graph.filter.trims
        N     == Len(segments)
    IN  /\ Cardinality({j \in DOMAIN trims : trims[j].kind = "v"}) = N
        /\ Cardinality({j \in DOMAIN trims : trims[j].kind = "a"}) = N
        /\ \A i \in 1..N :
             /\ trims[2 * i - 1] =
                  Trim(0, "v", segments[i][1], segments[i][2], i - 1)
             /\ trims[2 * i] =
                  Trim(0, "a", segments[i][1], segments[i][2], i - 1)

\* an export whose cuts leave three kept segments
TrimsFollowSegmentsWitness ==
  /\ gcall = "export"
  /\ Len(segments) = 3
  /\ Len(graph.filter.trims) = 6

\* position of clip j of the input among the clips by ascending offset,
\* clips of equal offset in input order
Rank(j) ==
  1 + Cardinality({k \in DOMAIN clips :
                     \/ clips[k].offset < clips[j].offset
                     \/ clips[k].offset = clips[j].offset /\ k < j})

\* C24: the clips of a timeline preview are used by ascending offset whatever
\* the input order, consistently: the i-th encoder input, the source index of
\* trim pair i and the i-th concat position all belong to the clip with the
\* i-th smallest offset, clips of equal offset keeping their input order.
ClipsInOffsetOrder ==
  /\ gcall \in {"timeline", "adaptive"} =>
       /\ Len(graph.inputs) = Len(clips)
       /\ Len(graph.filter.trims) = 2 * Len(clips)
       /\ \A j \in DOMAIN clips :
            LET i == Rank(j)
                c == clips[j]
            IN  /\ graph.inputs[i] = c.media_path
                /\ graph.filter.trims[2 * i - 1] =
                     Trim(i - 1, "v", c.start_time, c.end_time, i - 1)
                /\ graph.filter.trims[2 * i] =
                     Trim(i - 1, "a", c.start_time, c.end_time, i - 1)
                /\ graph.filter.concat.inputs[2 * i - 1] = Label("v", i - 1)
                /\ graph.filter.concat.inputs[2 * i] = Label("a", i - 1)
  /\ gcall = "adaptive_single" =>
       /\ graph.inputs = <<clips[1].media_path>>
       /\ graph.seek = <<clips[1].start_time,
                         clips[1].end_time - clips[1].start_time>>

\* three clips given latest first, the other two at one offset but from
\* different files
ClipsInOffsetOrderWitness ==
  /\ gcall \in {"timeline", "adaptive"}
  /\ Len(clips) = 3
  /\ clips[1].offset > clips[2].offset
  /\ clips[2].offset = clips[3].offset
  /\ clips[2].media_path # clips[3].media_path
  /\ graph.inputs = <<clips[2].media_path, clips[3].media_path,
                      clips[1].media_path>>

\* C25: in every run of export_with_cuts the segment list handed to the
\* graph synthesizer is non-empty and every segment has end > start.
SynthesizerGetsProperSegments ==
  gcall = "export" =>
    /\ segments # <<>>
    /\ \A i \in DOMAIN segments : segments[i][2] > segments[i][1]

\* an export whose last cut runs to the end of the source, so that a single
\* segment is handed over
SynthesizerGetsProperSegmentsWitness ==
  /\ gcall = "export"
  /\ Len(segments) = 1
  /\ normalized[Len(normalized)][2] = inDuration
  /\ graph.filter = build_filter_complex(segments)

====
